---- MODULE Spec2Model ----
(***************************************************************************)
(* Model of the cutting optimizer service (src/app/main.py): the          *)
(* /calculate endpoint, CuttingOptimizer.calculate with its retry loop,    *)
(* the quantity expansion, the grain transform and transform_result.      *)
(* The external packer (opcut) is a nondeterministic choice of outcome.   *)
(***************************************************************************)
EXTENDS Integers, Sequences, FiniteSets, TLC

VARIABLES
    pc,                   \* "received", "attempting" (in the retry loop), "done"
    method,               \* the method query parameter
    declared,             \* user_params as the endpoint received it
    current_user_params,  \* calculate's current_user_params
    tried,                \* current_user_params of the latest attempt
    opcut_params,         \* common.Params submitted in the latest attempt
    outcome,              \* what the packer did in the latest attempt
    result_json,          \* the raw result of the latest attempt
    item_mapping,         \* transform_result's item_mapping
    panel_mapping,        \* transform_result's panel_mapping
    response,             \* the CalculationResponse returned
    attempts              \* iterations of the retry loop so far

vars == <<pc, method, declared, current_user_params, tried, opcut_params, outcome,
          result_json, item_mapping, panel_mapping, response, attempts>>

(***************************************************************************)
(* Bounds of the model.                                                    *)
(***************************************************************************)
MaxPanelSpecs == 2
MaxItemSpecs == 1
MaxItemQty == 2
MaxUsed == 2
MaxUnused == 1

(***************************************************************************)
(* Program constants.                                                      *)
(***************************************************************************)
\* the retry ceiling on the total panel quantity (calculate)
PanelCeiling == 50
\* the quantity the endpoint writes into the first panel spec
ForcedFirstQuantity == 1
\* the increment calculate passes to _increment_panel_quantities
RetryIncrement == 1

MethodMap == {"greedy", "forward_greedy", "greedy_native", "forward_greedy_native"}

\* CalculationResponse.error = None
None == <<>>

(***************************************************************************)
(* Strings that take part in formatting are sequences of characters.       *)
(***************************************************************************)
Digits == <<"0", "1", "2", "3", "4", "5", "6", "7", "8", "9">>

RECURSIVE Dec(_)
\* str(n) of a natural number, as in an f-string
Dec(n) == IF n < 10 THEN <<Digits[n + 1]>>
          ELSE Dec(n \div 10) \o <<Digits[(n % 10) + 1]>>

\* a variant that numbers the units from 0: f"{name}_{i}"
UnitId_from_zero(name, ordinal) == name \o <<"_">> \o Dec(ordinal - 1)

\* f"{name}_{i+1}" for the 0-based loop index i is UnitId(name, i + 1)
UnitId(name, ordinal) == name \o <<"_">> \o Dec(ordinal)

\* code-point order of the characters that occur in identifiers
CharCode(c) ==
    CASE c = "0" -> 48 [] c = "1" -> 49 [] c = "2" -> 50 [] c = "3" -> 51
      [] c = "4" -> 52 [] c = "5" -> 53 [] c = "6" -> 54 [] c = "7" -> 55
      [] c = "8" -> 56 [] c = "9" -> 57 [] c = "?" -> 63 [] c = "_" -> 95
      [] c = "a" -> 97 [] c = "b" -> 98 [] c = "p" -> 112 [] c = "q" -> 113

RECURSIVE StrLess(_, _)
\* Python's < on str: lexicographic by code point, a proper prefix is smaller
StrLess(s, t) ==
    IF t = <<>> THEN FALSE
    ELSE IF s = <<>> THEN TRUE
    ELSE IF CharCode(Head(s)) < CharCode(Head(t)) THEN TRUE
    ELSE IF CharCode(Head(s)) > CharCode(Head(t)) THEN FALSE
    ELSE StrLess(Tail(s), Tail(t))

RECURSIVE ConcatAll(_)
ConcatAll(ss) == IF ss = <<>> THEN <<>> ELSE Head(ss) \o ConcatAll(Tail(ss))

RECURSIVE SumSeq(_)
SumSeq(s) == IF s = <<>> THEN 0 ELSE Head(s) + SumSeq(Tail(s))

(***************************************************************************)
(* UserParams.panels / UserParams.items are sequences of records:          *)
(*   PanelInput [name, width, height, quantity, grain]                     *)
(*   ItemInput  [name, width, height, isRotate, quantity, grain,           *)
(*               engraved_line, borders]                                   *)
(***************************************************************************)
DefaultBorders == [top |-> FALSE, right |-> FALSE, bottom |-> FALSE, left |-> FALSE]

\* range(q): q iterations, none when q <= 0
RangeLen(q) == IF q > 0 THEN q ELSE 0

\* _transform_item_for_calculation: the width and height swap under a grain mismatch
transform_item_for_calculation(item, panel) ==
    [name |-> item.name,
     width |-> IF item.grain # panel.grain THEN item.height ELSE item.width,
     height |-> IF item.grain # panel.grain THEN item.width ELSE item.height,
     isRotate |-> item.isRotate,
     quantity |-> item.quantity,
     grain |-> item.grain,
     engraved_line |-> item.engraved_line,
     borders |-> item.borders,
     original_width |-> item.width,
     original_height |-> item.height]

\* _expand_panels: quantity units per spec, in spec order, ids name_1 .. name_Q
expand_panels(panels) ==
    ConcatAll([k \in 1..Len(panels) |->
        [i \in 1..RangeLen(panels[k].quantity) |->
            [id |-> UnitId(panels[k].name, i),
             width |-> panels[k].width,
             height |-> panels[k].height]]])

\* _expand_items: quantity units per spec with the transformed dimensions
expand_items(items, panel) ==
    ConcatAll([k \in 1..Len(items) |->
        [i \in 1..RangeLen(items[k].quantity) |->
            [id |-> UnitId(items[k].name, i),
             width |-> transform_item_for_calculation(items[k], panel).width,
             height |-> transform_item_for_calculation(items[k], panel).height,
             can_rotate |-> items[k].isRotate]]])

\* a dict built by successive assignment: the last entry of a key wins
DictOf(entries) ==
    [key \in {entries[n].key : n \in 1..Len(entries)} |->
        LET at == {n \in 1..Len(entries) : entries[n].key = key}
        IN  entries[CHOOSE n \in at : \A m \in at : m <= n].value]

\* _create_item_mapping
create_item_mapping(items, panel) ==
    DictOf(ConcatAll([k \in 1..Len(items) |->
        [i \in 1..RangeLen(items[k].quantity) |->
            [key |-> UnitId(items[k].name, i),
             value |-> [name |-> items[k].name,
                        width |-> transform_item_for_calculation(items[k], panel).width,
                        height |-> transform_item_for_calculation(items[k], panel).height,
                        original_width |-> items[k].width,
                        original_height |-> items[k].height,
                        can_rotate |-> items[k].isRotate,
                        grain |-> items[k].grain,
                        engraved_line |-> items[k].engraved_line,
                        borders |-> items[k].borders]]]]))

\* _create_panel_mapping
create_panel_mapping(panels) ==
    DictOf(ConcatAll([k \in 1..Len(panels) |->
        [i \in 1..RangeLen(panels[k].quantity) |->
            [key |-> UnitId(panels[k].name, i),
             value |-> [name |-> panels[k].name,
                        width |-> panels[k].width,
                        height |-> panels[k].height,
                        grain |-> panels[k].grain]]]]))

\* _build_panel_structure, for a panel_id that is a key of panel_mapping
build_panel_structure(panel_id, pmap) ==
    [panel_id |-> panel_id,
     panel_name |-> pmap[panel_id].name,
     width |-> pmap[panel_id].width,
     height |-> pmap[panel_id].height,
     used_items |-> <<>>,
     unused_areas |-> <<>>]

\* a variant that rotates the border flags the other way round
RotateBorders_counterclockwise(b) ==
    [top |-> b.right, right |-> b.bottom, bottom |-> b.left, left |-> b.top]

\* the 90 degree clockwise rotation of the border flags
RotateBorders(b) ==
    [top |-> b.left, right |-> b.top, bottom |-> b.right, left |-> b.bottom]

FlipLine(line) ==
    IF line = "none" THEN "none"
    ELSE IF line = "horizontal" THEN "vertical" ELSE "horizontal"

\* _transform_used_item_for_display; item_mapping.get(item_id, {}) and the
\* .get defaults of every field
transform_used_item_for_display(used_item, imap, panel) ==
    LET item_id == used_item.item
        known == item_id \in DOMAIN imap
        cutting_width == IF "width" \in used_item.keys THEN used_item.width
                         ELSE IF known THEN imap[item_id].width ELSE 0
        cutting_height == IF "height" \in used_item.keys THEN used_item.height
                          ELSE IF known THEN imap[item_id].height ELSE 0
        grain == IF known THEN imap[item_id].grain ELSE "vertical"
        engrand_line_origin == IF known THEN imap[item_id].engraved_line ELSE "none"
        borders == IF known THEN imap[item_id].borders ELSE DefaultBorders
    IN  [item_id |-> item_id,
         name |-> IF known THEN imap[item_id].name ELSE <<>>,
         width |-> cutting_width,
         height |-> cutting_height,
         x |-> used_item.x,
         y |-> used_item.y,
         rotate |-> used_item.rotate,
         grain |-> grain,
         engraved_line |-> IF grain # panel.grain THEN FlipLine(engrand_line_origin)
                           ELSE engrand_line_origin,
         borders |-> IF grain # panel.grain THEN RotateBorders(borders) ELSE borders]

\* a variant that raises the quantity of the first panel spec only
increment_panel_quantities_first_only(user_params, increment) ==
    [user_params EXCEPT !.panels[1].quantity = @ + increment]

\* a variant that returns its argument
increment_panel_quantities_noop(user_params, increment) == user_params

\* _increment_panel_quantities: a new UserParams, every panel quantity raised
increment_panel_quantities(user_params, increment) ==
    [user_params EXCEPT !.panels =
        [k \in 1..Len(user_params.panels) |->
            [user_params.panels[k] EXCEPT !.quantity = @ + increment]]]

\* _get_total_panel_quantity
get_total_panel_quantity(user_params) ==
    SumSeq([k \in 1..Len(user_params.panels) |-> user_params.panels[k].quantity])

(***************************************************************************)
(* transform_result.  The raw result is [used, unused]; a used record is   *)
(* [panel, item, x, y, rotate, keys, width, height] where keys holds the   *)
(* optional keys ("width", "height") the record carries; an unused record  *)
(* is [panel, width, height, x, y].                                        *)
(***************************************************************************)
IndexOfPanel(panels_dict, panel_id) ==
    IF \E n \in 1..Len(panels_dict) : panels_dict[n].panel_id = panel_id
    THEN CHOOSE n \in 1..Len(panels_dict) : panels_dict[n].panel_id = panel_id
    ELSE 0

\* a variant that opens a new entry for every record
WithPanel_always_new(panels_dict, panel_id, pmap) ==
    Append(panels_dict, build_panel_structure(panel_id, pmap))

\* panels_dict[panel_id], created at its first use, in insertion order
WithPanel(panels_dict, panel_id, pmap) ==
    IF IndexOfPanel(panels_dict, panel_id) = 0
    THEN Append(panels_dict, build_panel_structure(panel_id, pmap))
    ELSE panels_dict

RECURSIVE ProcessUsed(_, _, _, _, _)
\* the loop over result["used"]
ProcessUsed(panels_dict, used, imap, pmap, panel) ==
    IF used = <<>> THEN panels_dict
    ELSE LET used_item == Head(used)
             d == WithPanel(panels_dict, used_item.panel, pmap)
             n == IndexOfPanel(d, used_item.panel)
             enriched_item == transform_used_item_for_display(used_item, imap, panel)
         IN  ProcessUsed([d EXCEPT ![n].used_items = Append(@, enriched_item)],
                         Tail(used), imap, pmap, panel)

RECURSIVE ProcessUnused(_, _, _)
\* the loop over result["unused"]
ProcessUnused(panels_dict, unused, pmap) ==
    IF unused = <<>> THEN panels_dict
    ELSE LET unused_area == Head(unused)
             d == WithPanel(panels_dict, unused_area.panel, pmap)
             n == IndexOfPanel(d, unused_area.panel)
         IN  ProcessUnused([d EXCEPT ![n].unused_areas =
                                Append(@, [width |-> unused_area.width,
                                           height |-> unused_area.height,
                                           x |-> unused_area.x,
                                           y |-> unused_area.y])],
                           Tail(unused), pmap)

RECURSIVE InsertSorted(_, _)
InsertSorted(sorted, p) ==
    IF sorted = <<>> THEN <<p>>
    ELSE IF StrLess(p.panel_id, Head(sorted).panel_id) THEN <<p>> \o sorted
    ELSE <<Head(sorted)>> \o InsertSorted(Tail(sorted), p)

\* a variant that keeps the insertion order of panels_dict
SortedByPanelId_insertion_order(ps) == ps

RECURSIVE SortedByPanelId(_)
\* sorted(panels_dict.values(), key=lambda x: x["panel_id"]): stable, ascending
SortedByPanelId(ps) ==
    IF ps = <<>> THEN <<>>
    ELSE InsertSorted(SortedByPanelId(SubSeq(ps, 1, Len(ps) - 1)), ps[Len(ps)])

\* the first panel id of the result that is not a key of panel_mapping: the
\* KeyError of _build_panel_structure (used records first, then unused ones)
MissingPanelIds(result, pmap) ==
    SelectSeq([n \in 1..Len(result.used) |-> result.used[n].panel]
                \o [n \in 1..Len(result.unused) |-> result.unused[n].panel],
              LAMBDA id : id \notin DOMAIN pmap)

\* transform_result: the success response, or the exception it re-raises.
\* imap and pmap are its locals item_mapping and panel_mapping, which the
\* attempt computes once from user_params for all the results it may get.
transform_result(result, user_params, imap, pmap) ==
    LET missing == MissingPanelIds(result, pmap)
        panels_dict == ProcessUnused(
                          ProcessUsed(<<>>, result.used, imap, pmap, user_params.panels[1]),
                          result.unused, pmap)
        panels_list == SortedByPanelId(panels_dict)
    IN  IF missing # <<>>
        THEN [raised |-> TRUE, category |-> "KeyError",
              message |-> <<"'">> \o Head(missing) \o <<"'">>]
        ELSE [raised |-> FALSE,
              response |-> [success |-> TRUE,
                            panels |-> panels_list,
                            cuts |-> <<>>,
                            summary |-> [total_panels_used |-> Len(panels_list),
                                         total_items_placed |-> Len(result.used),
                                         total_unused_areas |-> Len(result.unused)],
                            error |-> None]]

(***************************************************************************)
(* The responses of calculate and of the endpoint.                         *)
(***************************************************************************)
FailureResponse(error) ==
    [success |-> FALSE, panels |-> <<>>, cuts |-> <<>>, summary |-> <<>>,
     error |-> error]

\* a variant that names the ceiling instead of the total that was tried
CeilingError_names_ceiling(current_total_panels) ==
    <<"UnresolvableError: No valid cutting solution found even with ">>
        \o Dec(PanelCeiling)
        \o <<" panels. Try adjusting item dimensions or using different optimization method.">>

\* the response of the exhausted retry loop
CeilingError(current_total_panels) ==
    <<"UnresolvableError: No valid cutting solution found even with ">>
        \o Dec(current_total_panels)
        \o <<" panels. Try adjusting item dimensions or using different optimization method.">>

\* a variant that drops the category
ExceptionError_message_only(category, message) == message

\* f"{type(e).__name__}: {str(e)}"
ExceptionError(category, message) == <<category, ": ">> \o message

\* f"API Error: {str(e)}"
ApiError(message) == <<"API Error: ">> \o message

(***************************************************************************)
(* The packer (opcut): an outcome per attempt.  A result places submitted  *)
(* item units on submitted panel units and reports leftover regions; a     *)
(* foreign result references a unit id that was never submitted.           *)
(***************************************************************************)
SeqsUpTo(S, n) == UNION {[1..k -> S] : k \in 0..n}

UnknownId == <<"?">>

EndUnits(units) ==
    IF units = <<>> THEN {} ELSE {units[1], units[Len(units)]}

EndIds(units) == {u.id : u \in EndUnits(units)}

\* a placement as used_to_json writes it: no width or height key
Placement(panel_id, item_id, rotate) ==
    [panel |-> panel_id, item |-> item_id, x |-> 10, y |-> 20, rotate |-> rotate,
     keys |-> {}, width |-> 0, height |-> 0]

\* a placement that also carries the size of the unit as it was submitted
SizedPlacement(panel_id, item, rotate) ==
    [panel |-> panel_id, item |-> item.id, x |-> 10, y |-> 20, rotate |-> rotate,
     keys |-> {"width", "height"}, width |-> item.width, height |-> item.height]

Region(panel_id) ==
    [panel |-> panel_id, width |-> 100, height |-> 200, x |-> 30, y |-> 40]

\* the packer rotates only an item that may be rotated
Rotatable(params) ==
    {ir \in EndUnits(params.items) \X BOOLEAN : ir[2] => ir[1].can_rotate}

ProperPlacements(params) ==
    {Placement(pid, ir[1].id, ir[2]) :
        pid \in EndIds(params.panels), ir \in Rotatable(params)}

ProperResults(params) ==
    {[used |-> u, unused |-> un] :
        u \in SeqsUpTo(ProperPlacements(params), MaxUsed),
        un \in SeqsUpTo({Region(pid) : pid \in EndIds(params.panels)}, MaxUnused)}

SizedResults(params) ==
    {[used |-> <<SizedPlacement(pid, it, FALSE)>>, unused |-> <<>>] :
        pid \in EndIds(params.panels), it \in EndUnits(params.items)}

ForeignResults(params) ==
    {[used |-> <<Placement(UnknownId, iid, FALSE)>>, unused |-> <<>>] :
        iid \in EndIds(params.items) \cup {UnknownId}}
    \cup {[used |-> <<Placement(pid, UnknownId, FALSE)>>, unused |-> <<>>] :
            pid \in EndIds(params.panels)}
    \cup {[used |-> <<Placement(pid, UnknownId, FALSE)>>, unused |-> <<Region(pid)>>] :
            pid \in EndIds(params.panels)}
    \cup {[used |-> <<>>, unused |-> <<Region(UnknownId)>>]}

\* the panel units number 1, 3 and 11 of the submission, where they exist; of
\* a spec of ten units or more the second unit precedes the tenth in the
\* submission and follows it when the ids are compared as strings
SpreadIds(units) == {units[k].id : k \in {1, 3, 11} \cap (1..Len(units))}

\* two placements of the first item unit and one unused region, each with
\* coordinates of its own, on any panels of SpreadIds, in any order
SpreadResults(params) ==
    IF params.items = <<>> THEN {}
    ELSE {[used |-> <<[Placement(pids[1], params.items[1].id, FALSE)
                          EXCEPT !.x = 11, !.y = 21],
                      [Placement(pids[2], params.items[1].id, FALSE)
                          EXCEPT !.x = 12, !.y = 22]>>,
           unused |-> <<[Region(pids[3]) EXCEPT !.width = 101, !.height = 201,
                                                !.x = 31, !.y = 41]>>] :
            pids \in [1..3 -> SpreadIds(params.panels)]}

PackerResults(params) ==
    ProperResults(params) \cup SizedResults(params) \cup ForeignResults(params)
        \cup SpreadResults(params)

\* what the packer did: kind is "none", "result", "unresolvable" or "error"
Outcome(kind, category, message) ==
    [kind |-> kind, category |-> category, message |-> message]

OtherFailures ==
    {Outcome("error", "ValueError", <<"invalid params">>),
     Outcome("error", "RuntimeError", <<"native call failed">>)}

(***************************************************************************)
(* The inputs: the requests the endpoint receives.                         *)
(***************************************************************************)
GrainInputs == {"horizontal", "vertical"}
LineInputs == {"horizontal", "vertical", "none"}
QuantityInputs == {0, 1, 49, 52}
MethodInputs == {"greedy", "bogus"}
BorderInputs == [top : BOOLEAN, right : BOOLEAN, bottom : BOOLEAN, left : BOOLEAN]

PanelInput(name, quantity, grain) ==
    [name |-> name, width |-> 2440, height |-> 1220, quantity |-> quantity,
     grain |-> grain]

SimpleItem ==
    [name |-> <<"a">>, width |-> 500, height |-> 300, isRotate |-> FALSE,
     quantity |-> 1, grain |-> "horizontal", engraved_line |-> "horizontal",
     borders |-> [top |-> TRUE, right |-> FALSE, bottom |-> FALSE, left |-> FALSE]]

UserParams(panels, items) ==
    [cut_width |-> 3, min_initial_usage |-> FALSE, panels |-> panels, items |-> items]

\* requests that differ in the number of panel specs and in their quantities
RetryPanels ==
    UNION {{[k \in 1..n |-> PanelInput(<<"p">> \o Dec(k), qs[k], "vertical")] :
               qs \in [1..n -> QuantityInputs]} : n \in 0..MaxPanelSpecs}

RetryInputs ==
    {[method |-> m, params |-> UserParams(ps, <<SimpleItem>>)] :
        m \in MethodInputs, ps \in RetryPanels}

\* requests that differ in the grains and in the decoration of one item spec;
\* the second panel spec brings the total to the ceiling at the first attempt
GeomItems ==
    {[name |-> <<"a">>, width |-> 500, height |-> 300, isRotate |-> r, quantity |-> 1,
      grain |-> g, engraved_line |-> ln, borders |-> b] :
        r \in BOOLEAN, g \in GrainInputs, ln \in LineInputs, b \in BorderInputs}

OtherGrain(g) == IF g = "horizontal" THEN "vertical" ELSE "horizontal"

\* an item spec of the other grain beside the first one
MixedItems ==
    {<<it, [it EXCEPT !.name = <<"b">>, !.grain = OtherGrain(it.grain)]>> :
        it \in {i \in GeomItems :
                   /\ ~i.isRotate
                   /\ i.borders = [DefaultBorders EXCEPT !.left = TRUE]}}

GeomPanels ==
    {<<PanelInput(<<"p", "1">>, 1, g[1]), PanelInput(<<"p", "2">>, 49, g[2])>> :
        g \in GrainInputs \X GrainInputs}

GeomInputs ==
    {[method |-> "greedy", params |-> UserParams(ps, is)] :
        ps \in GeomPanels, is \in {<<it>> : it \in GeomItems} \cup MixedItems}

\* requests that differ in the names and quantities of their specs
NameInputs == {<<"p">>, <<"p", "_", "1">>}
ExpandQuantityInputs == {46}

ExpandPanels ==
    [1..2 -> {PanelInput(nm, q, "vertical") :
                 nm \in NameInputs, q \in ExpandQuantityInputs}]

ExpandItems ==
    SeqsUpTo({[SimpleItem EXCEPT !.name = nm, !.quantity = q] :
                 nm \in NameInputs, q \in 0..MaxItemQty}, MaxItemSpecs)

ExpandInputs ==
    {[method |-> "greedy", params |-> UserParams(ps, is)] :
        ps \in ExpandPanels, is \in ExpandItems}

NoParams == [cut_width |-> 0, min_initial_usage |-> FALSE, panels |-> <<>>, items |-> <<>>]
NoResult == [used |-> <<>>, unused |-> <<>>]
NoResponse == FailureResponse(<<"no response">>)

(***************************************************************************)
(* The state machine.                                                      *)
(***************************************************************************)
InitOf(inputs) ==
    /\ pc = "received"
    /\ \E in \in inputs : method = in.method /\ declared = in.params
    /\ current_user_params = NoParams
    /\ tried = NoParams
    /\ opcut_params = NoParams
    /\ outcome = Outcome("none", "", <<>>)
    /\ result_json = NoResult
    /\ item_mapping = <<>>
    /\ panel_mapping = <<>>
    /\ response = NoResponse
    /\ attempts = 0

InitRetry == InitOf(RetryInputs)

InitGeom == InitOf(GeomInputs)

InitExpand == InitOf(ExpandInputs)

Init == InitOf(RetryInputs \cup GeomInputs \cup ExpandInputs)

\* the endpoint up to the call of optimizer.calculate, and the method check
\* of calculate
calculate_optimization ==
    /\ pc = "received"
    /\ IF declared.panels = <<>>
       THEN /\ response' = FailureResponse(ApiError(<<"list index out of range">>))
            /\ pc' = "done"
            /\ UNCHANGED current_user_params
       ELSE LET user_params ==
                    [declared EXCEPT !.panels[1].quantity = ForcedFirstQuantity]
            IN  IF method \notin MethodMap
                THEN /\ response' = FailureResponse(
                             ApiError(<<"Unknown method: ", method>>))
                     /\ pc' = "done"
                     /\ UNCHANGED current_user_params
                ELSE /\ current_user_params' = user_params
                     /\ pc' = "attempting"
                     /\ UNCHANGED response
    /\ UNCHANGED <<method, declared, tried, opcut_params, outcome, result_json,
                   item_mapping, panel_mapping, attempts>>

\* common.Params of one iteration of the retry loop
Submission(user_params) ==
    [cut_width |-> user_params.cut_width,
     min_initial_usage |-> user_params.min_initial_usage,
     panels |-> expand_panels(user_params.panels),
     items |-> expand_items(user_params.items, user_params.panels[1])]

\* an iteration in which the packer returns a result; the endpoint never
\* calls calculate with an empty panel list
AttemptSuccess ==
    /\ pc = "attempting"
    /\ current_user_params.panels # <<>>
    /\ pc' = "done"
    /\ outcome' = Outcome("result", "", <<>>)
    /\ attempts' = attempts + 1
    /\ tried' = current_user_params
    /\ opcut_params' = Submission(current_user_params)
    /\ item_mapping' = create_item_mapping(current_user_params.items,
                                           current_user_params.panels[1])
    /\ panel_mapping' = create_panel_mapping(current_user_params.panels)
    /\ \E result \in PackerResults(opcut_params') :
          /\ result_json' = result
          /\ LET t == transform_result(result, current_user_params,
                                       item_mapping', panel_mapping')
             IN  response' =
                   IF t.raised
                   THEN FailureResponse(ExceptionError(t.category, t.message))
                   ELSE t.response
    /\ UNCHANGED <<method, declared, current_user_params>>

\* an iteration in which the packer raises UnresolvableError
AttemptUnresolvable ==
    /\ pc = "attempting"
    /\ current_user_params.panels # <<>>
    /\ outcome' = Outcome("unresolvable", "UnresolvableError", <<"no solution">>)
    /\ tried' = current_user_params
    /\ opcut_params' = Submission(current_user_params)
    /\ attempts' = attempts + 1
    /\ LET current_total_panels == get_total_panel_quantity(current_user_params)
       IN  IF current_total_panels < PanelCeiling
           THEN /\ current_user_params' =
                       increment_panel_quantities(current_user_params, RetryIncrement)
                /\ pc' = "attempting"
                /\ UNCHANGED response
           ELSE /\ response' = FailureResponse(CeilingError(current_total_panels))
                /\ pc' = "done"
                /\ UNCHANGED current_user_params
    /\ UNCHANGED <<method, declared, result_json, item_mapping, panel_mapping>>

\* an iteration in which the packer raises any other exception
AttemptOtherFailure ==
    /\ pc = "attempting"
    /\ current_user_params.panels # <<>>
    /\ \E e \in OtherFailures :
          /\ outcome' = e
          /\ response' = FailureResponse(ExceptionError(e.category, e.message))
    /\ tried' = current_user_params
    /\ opcut_params' = Submission(current_user_params)
    /\ attempts' = attempts + 1
    /\ pc' = "done"
    /\ UNCHANGED <<method, declared, current_user_params, result_json,
                   item_mapping, panel_mapping>>

Next ==
    \/ calculate_optimization
    \/ AttemptUnresolvable
    \/ AttemptOtherFailure
    \/ AttemptSuccess

SpecRetry == InitRetry /\ [][Next]_vars

SpecGeom == InitGeom /\ [][Next]_vars

SpecExpand == InitExpand /\ [][Next]_vars

Spec == Init /\ [][Next]_vars

FairRetry == SpecRetry /\ WF_vars(Next)

(***************************************************************************)
(* Definitions the properties are stated with.                             *)
(***************************************************************************)
Quantities(user_params) ==
    [k \in 1..Len(user_params.panels) |-> user_params.panels[k].quantity]

RECURSIVE Total(_)
Total(qs) == IF qs = <<>> THEN 0 ELSE qs[1] + Total(Tail(qs))

\* the total panel quantity the caller declared
DeclaredTotal == Total(Quantities(declared))

\* the total panel quantity of the latest attempt
TriedTotal == Total(Quantities(tried))

\* the total panel quantity of the first attempt of the request
FirstTotal == TriedTotal - (attempts - 1) * Len(tried.panels)

\* sub occurs in s as a contiguous run
Contains(s, sub) ==
    \E i \in 1..(Len(s) - Len(sub) + 1) : SubSeq(s, i, i + Len(sub) - 1) = sub

\* ceil(a / b) for b > 0
CeilDiv(a, b) == -((-a) \div b)

Max(a, b) == IF a >= b THEN a ELSE b

IsFailure(r) == r.success = FALSE /\ r.panels = <<>>

(***************************************************************************)
(* C1: when the packer reports infeasibility on an attempt whose total     *)
(* panel quantity is below 50, the loop continues with every panel spec's  *)
(* quantity raised by exactly 1 and items, cut width and min-initial-usage *)
(* unchanged; the next attempt submits exactly that, so its total panel    *)
(* quantity is strictly greater than the previous attempt's.               *)
(***************************************************************************)
RaisedByOne(before, after) ==
    /\ Len(after.panels) = Len(before.panels)
    /\ \A k \in 1..Len(before.panels) :
          after.panels[k] =
              [before.panels[k] EXCEPT !.quantity = before.panels[k].quantity + 1]
    /\ after.items = before.items
    /\ after.cut_width = before.cut_width
    /\ after.min_initial_usage = before.min_initial_usage

C1_RetryIncrementsEveryPanel ==
    [][ /\ (outcome'.kind = "unresolvable" /\ Total(Quantities(tried')) < 50)
            => /\ pc' = "attempting"
               /\ RaisedByOne(tried', current_user_params')
        /\ (attempts >= 1 /\ attempts' = attempts + 1)
            => /\ RaisedByOne(tried, tried')
               /\ opcut_params'.items = opcut_params.items
               /\ opcut_params'.cut_width = opcut_params.cut_width
               /\ opcut_params'.min_initial_usage = opcut_params.min_initial_usage
               /\ Len(opcut_params'.panels) =
                      Len(opcut_params.panels) + Len(tried.panels)
               /\ Total(Quantities(tried')) > Total(Quantities(tried)) ]_vars

\* a second attempt has been submitted for a request with two panel specs
C1_Witness ==
    /\ attempts = 2
    /\ Len(tried.panels) = 2
    /\ Len(opcut_params.panels) = Total(Quantities(tried))
    /\ tried.items # <<>>

(***************************************************************************)
(* C2 as claimed: when every attempt is infeasible, the retries stop when  *)
(* the total panel quantity reaches 50, the response then has              *)
(* success=false and an error that contains "50", and no attempt is made   *)
(* with a total above 50.                                                  *)
(***************************************************************************)
C2_StopsAtExactlyFifty ==
    outcome.kind = "unresolvable" =>
        /\ TriedTotal <= 50
        /\ TriedTotal < 50 => pc = "attempting"
        /\ pc = "done" => /\ TriedTotal = 50
                          /\ IsFailure(response)
                          /\ Contains(response.error, <<"5", "0">>)

(***************************************************************************)
(* C2, amended: when every attempt is infeasible, the retries continue     *)
(* while the total panel quantity is below 50 and stop at the first        *)
(* attempt whose total is 50 or more; the response then has success=false  *)
(* and an error that contains that final total in decimal.  The final      *)
(* total is the first attempt's total when that was 50 or more, otherwise  *)
(* it is below 50 plus the number of panel specs, and so exactly 50 (the   *)
(* error contains "50") for a request with one panel spec.                 *)
(***************************************************************************)
C2_StopsAtOrAboveFifty ==
    outcome.kind = "unresolvable" =>
        /\ TriedTotal < 50 => pc = "attempting"
        /\ TriedTotal >= 50 =>
              /\ pc = "done"
              /\ IsFailure(response)
              /\ Contains(response.error, Dec(TriedTotal))
              /\ FirstTotal >= 50 => attempts = 1
              /\ FirstTotal < 50 => TriedTotal < 50 + Len(tried.panels)
              /\ (FirstTotal < 50 /\ Len(tried.panels) = 1) =>
                    TriedTotal = 50 /\ Contains(response.error, <<"5", "0">>)

\* a request with two panel specs whose retries ended above the ceiling
C2_Witness ==
    /\ pc = "done"
    /\ outcome.kind = "unresolvable"
    /\ attempts > 1
    /\ TriedTotal = 51

(***************************************************************************)
(* C3 as claimed: every request reaches a terminal outcome, within         *)
(* ceil((50 - initial_total) / increment) + 1 attempts, initial_total the  *)
(* total panel quantity the request declared and increment the growth of   *)
(* the total per retry (the number of panel specs).                        *)
(***************************************************************************)
C3_TerminatesWithinDeclaredBound ==
    /\ <>(pc = "done")
    /\ [](attempts >= 1 =>
            attempts <= CeilDiv(50 - DeclaredTotal, Len(declared.panels)) + 1)

(***************************************************************************)
(* C3, amended: every request reaches a terminal outcome; a request with   *)
(* no panel spec makes no attempt, and any other makes at most             *)
(* max(1, ceil((50 - first_total) / increment) + 1) attempts, first_total  *)
(* the total panel quantity of the first attempt (the declared total with  *)
(* the first panel spec's quantity replaced by 1) and increment the number *)
(* of panel specs.                                                         *)
(***************************************************************************)
C3_TerminatesWithinBound ==
    /\ <>(pc = "done")
    /\ [](attempts >= 1 =>
            /\ declared.panels # <<>>
            /\ FirstTotal = DeclaredTotal - declared.panels[1].quantity + 1
            /\ attempts <= Max(1, CeilDiv(50 - FirstTotal, Len(tried.panels)) + 1))

\* the bound is met: a request that ended after the last attempt it allows
C3_Witness ==
    /\ pc = "done"
    /\ attempts > 1
    /\ attempts = CeilDiv(50 - FirstTotal, Len(tried.panels)) + 1

(***************************************************************************)
(* C6: when the packer, or the assembly of its result, fails with an error *)
(* other than infeasibility, the request is done at once: the response has *)
(* success=false, no panels and an error made of the failure's category    *)
(* and message, and the panel quantities are those of the failed attempt.  *)
(***************************************************************************)
C6_OtherFailureIsTerminal ==
    /\ outcome.kind = "error" =>
          /\ pc = "done"
          /\ IsFailure(response)
          /\ response.error = <<outcome.category, ": ">> \o outcome.message
          /\ current_user_params = tried
    /\ (outcome.kind = "result"
          /\ \/ \E n \in 1..Len(result_json.used) :
                   result_json.used[n].panel \notin DOMAIN panel_mapping
             \/ \E n \in 1..Len(result_json.unused) :
                   result_json.unused[n].panel \notin DOMAIN panel_mapping) =>
          /\ pc = "done"
          /\ IsFailure(response)
          /\ SubSeq(response.error, 1, 2) = <<"KeyError", ": ">>
          /\ current_user_params = tried

\* the packer failed on a retry
C6_Witness ==
    /\ outcome.kind = "error"
    /\ attempts = 3
    /\ pc = "done"

(***************************************************************************)
(* C8 as claimed: the first attempt submits, for every panel spec, the     *)
(* quantity the caller declared, and no attempt submits fewer panel units  *)
(* than the caller declared in total.                                      *)
(***************************************************************************)
C8_DeclaredQuantitiesSubmitted ==
    attempts >= 1 =>
        /\ attempts = 1 => Quantities(tried) = Quantities(declared)
        /\ Len(opcut_params.panels) >= DeclaredTotal

(***************************************************************************)
(* Definitions for the properties of a success response.                   *)
(***************************************************************************)
Succeeded == pc = "done" /\ response.success

\* the placed-item records of the response, as <<panel entry, position>> pairs
PlacedAt ==
    UNION {{<<p, n>> : n \in 1..Len(response.panels[p].used_items)} :
              p \in 1..Len(response.panels)}

Placed(pn) == response.panels[pn[1]].used_items[pn[2]]

\* the digits of a unit id after its last underscore, as a number
RECURSIVE Ordinal(_)
Ordinal(ds) ==
    IF ds = <<>> THEN 0
    ELSE 10 * Ordinal(SubSeq(ds, 1, Len(ds) - 1))
           + (CHOOSE v \in 0..9 : Digits[v + 1] = ds[Len(ds)])

\* id is the unit id of the given ordinal of a spec named name
IsUnitOf(id, name, ordinal) ==
    /\ Len(id) > Len(name) + 1
    /\ SubSeq(id, 1, Len(name)) = name
    /\ id[Len(name) + 1] = "_"
    /\ \A n \in (Len(name) + 2)..Len(id) : \E v \in 1..10 : Digits[v] = id[n]
    /\ id[Len(name) + 2] # "0"
    /\ Ordinal(SubSeq(id, Len(name) + 2, Len(id))) = ordinal

\* the item specs of the latest attempt a unit id belongs to
SpecsOf(id) ==
    {k \in 1..Len(tried.items) :
        \E i \in 1..tried.items[k].quantity : IsUnitOf(id, tried.items[k].name, i)}

(***************************************************************************)
(* C4 as claimed: in a success response every placed item that was         *)
(* submitted carries the width, height, engraved line and border flags its *)
(* item spec declared, cross-grain or not.                                 *)
(***************************************************************************)
C4_DisplayRestoresDeclaredItem ==
    Succeeded =>
        \A pn \in PlacedAt : \A k \in SpecsOf(Placed(pn).item_id) :
            /\ Placed(pn).width = tried.items[k].width
            /\ Placed(pn).height = tried.items[k].height
            /\ Placed(pn).engraved_line = tried.items[k].engraved_line
            /\ Placed(pn).borders = tried.items[k].borders

(***************************************************************************)
(* C5: with the grain of the reference panel (the first panel spec, which  *)
(* _expand_items and _transform_used_item_for_display are given): an item  *)
(* unit is submitted with width and height swapped exactly when the item's *)
(* grain differs from it; in a success response exactly those cross-grain  *)
(* items have the engraved line flipped (none stays none) and the borders  *)
(* rotated clockwise (top = old left, right = old top, bottom = old right, *)
(* left = old bottom), and the other items carry the declared width,       *)
(* height, engraved line and borders.                                      *)
(***************************************************************************)
CrossGrain(item) == item.grain # tried.panels[1].grain

C7_SuccessReferencesIndexedUnitsOnly ==
    /\ Succeeded =>
          /\ \A n \in 1..Len(response.panels) :
                response.panels[n].panel_id \in DOMAIN panel_mapping
          /\ \A pn \in PlacedAt : Placed(pn).item_id \in DOMAIN item_mapping
    /\ (pc = "done" /\ outcome.kind = "result"
          /\ \E n \in 1..Len(result_json.used) :
                \/ result_json.used[n].item \notin DOMAIN item_mapping
                \/ result_json.used[n].panel \notin DOMAIN panel_mapping)
          => ~response.success

(***************************************************************************)
(* C10: in every success response total_items_placed is the number of      *)
(* placement records of the raw result, total_unused_areas the number of   *)
(* its unused regions, total_panels_used the number of distinct panel ids  *)
(* in placements and unused regions, and the used_items lists of the       *)
(* panels hold total_items_placed records together.                        *)
(***************************************************************************)
ReferencedPanels ==
    {result_json.used[n].panel : n \in 1..Len(result_json.used)}
        \cup {result_json.unused[n].panel : n \in 1..Len(result_json.unused)}

C10_SummaryConsistency ==
    Succeeded =>
        /\ response.summary.total_items_placed = Len(result_json.used)
        /\ response.summary.total_unused_areas = Len(result_json.unused)
        /\ response.summary.total_panels_used = Cardinality(ReferencedPanels)
        /\ Cardinality(PlacedAt) = response.summary.total_items_placed

\* two placements on one panel and an unused region on another
C10_Witness ==
    /\ Succeeded
    /\ response.summary.total_items_placed = 2
    /\ response.summary.total_unused_areas = 1
    /\ response.summary.total_panels_used = 2

(***************************************************************************)
(* C9: in every attempt each panel spec and each item spec of quantity Q   *)
(* yields exactly Q units, in spec order, with the ids name_1 .. name_Q;   *)
(* when the names are unique the ids are pairwise distinct; the metadata   *)
(* indexes have exactly the submitted ids as keys; and a retry submits the *)
(* same item unit ids and, for every panel spec, the units of the previous *)
(* attempt followed by the one new unit name_{Q+1}.                        *)
(***************************************************************************)
QtyOf(specs) == [k \in 1..Len(specs) |-> specs[k].quantity]

Offset(specs, k) == Total(SubSeq(QtyOf(specs), 1, k - 1))

IdsOf(units) == [n \in 1..Len(units) |-> units[n].id]

UniqueNames(specs) ==
    \A j, k \in 1..Len(specs) : j # k => specs[j].name # specs[k].name

Distinct(seq) == \A m, n \in 1..Len(seq) : m # n => seq[m] # seq[n]

Expanded(specs, units) ==
    /\ Len(units) = Total(QtyOf(specs))
    /\ \A k \in 1..Len(specs) : \A i \in 1..specs[k].quantity :
          IsUnitOf(units[Offset(specs, k) + i].id, specs[k].name, i)
    /\ UniqueNames(specs) => Distinct(IdsOf(units))

C9_Expansion ==
    [][ /\ attempts' >= 1 =>
              /\ Expanded(tried'.panels, opcut_params'.panels)
              /\ Expanded(tried'.items, opcut_params'.items)
        /\ outcome'.kind = "result" =>
              /\ DOMAIN panel_mapping' =
                     {opcut_params'.panels[n].id : n \in 1..Len(opcut_params'.panels)}
              /\ DOMAIN item_mapping' =
                     {opcut_params'.items[n].id : n \in 1..Len(opcut_params'.items)}
        /\ (attempts >= 1 /\ attempts' = attempts + 1) =>
              /\ IdsOf(opcut_params'.items) = IdsOf(opcut_params.items)
              /\ \A k \in 1..Len(tried.panels) :
                    LET q == tried.panels[k].quantity
                        old == SubSeq(IdsOf(opcut_params.panels),
                                      Offset(tried.panels, k) + 1,
                                      Offset(tried.panels, k) + q)
                        new == SubSeq(IdsOf(opcut_params'.panels),
                                      Offset(tried'.panels, k) + 1,
                                      Offset(tried'.panels, k) + q + 1)
                    IN  /\ SubSeq(new, 1, q) = old
                        /\ IsUnitOf(new[q + 1], tried.panels[k].name, q + 1)
              /\ UniqueNames(tried.panels) =>
                    LET old == {opcut_params.panels[n].id :
                                   n \in 1..Len(opcut_params.panels)}
                        new == {opcut_params'.panels[n].id :
                                   n \in 1..Len(opcut_params'.panels)}
                    IN  old \subseteq new
                        /\ Cardinality(new \ old) = Len(tried.panels) ]_vars

\* the result of a retry for specs of unique names, with two-digit ordinals
C9_Witness ==
    /\ attempts = 2
    /\ outcome.kind = "result"
    /\ UniqueNames(tried.panels)
    /\ tried.items # <<>>
    /\ Len(opcut_params.items) = MaxItemQty
    /\ Len(opcut_params.panels) > 45
    /\ Cardinality(DOMAIN panel_mapping) = Len(opcut_params.panels)

(***************************************************************************)
(* C11: in every success response the panels list holds exactly one entry  *)
(* for each panel unit id that a placement record or an unused region of   *)
(* the raw result references, and no other entry; the entry of a panel     *)
(* holds the placements that reference it, in the order of the raw result, *)
(* with their item id, x, y and rotate flag, and the unused regions that   *)
(* reference it, in that order, with their width, height, x and y; the     *)
(* entries are in strictly ascending order of the panel unit id, the ids   *)
(* compared as strings.                                                    *)
(***************************************************************************)
OfPanel(records, panel_id) == SelectSeq(records, LAMBDA r : r.panel = panel_id)

Positions(records) ==
    [n \in 1..Len(records) |-> [x |-> records[n].x, y |-> records[n].y]]

C11_PanelsGroupedAndSorted ==
    Succeeded =>
        /\ {response.panels[n].panel_id : n \in 1..Len(response.panels)}
              = ReferencedPanels
        /\ \A m, n \in 1..Len(response.panels) :
              m < n => StrLess(response.panels[m].panel_id,
                               response.panels[n].panel_id)
        /\ \A n \in 1..Len(response.panels) :
              LET entry == response.panels[n]
                  used == OfPanel(result_json.used, entry.panel_id)
                  unused == OfPanel(result_json.unused, entry.panel_id)
              IN  /\ Positions(entry.used_items) = Positions(used)
                  /\ [k \in 1..Len(entry.used_items) |->
                          <<entry.used_items[k].item_id, entry.used_items[k].rotate>>]
                        = [k \in 1..Len(used) |-> <<used[k].item, used[k].rotate>>]
                  /\ entry.unused_areas
                        = [k \in 1..Len(unused) |->
                              [width |-> unused[k].width, height |-> unused[k].height,
                               x |-> unused[k].x, y |-> unused[k].y]]

\* three entries, the one of the tenth unit of a spec before the one of its
\* second unit, from a raw result that references the second unit first and
\* the first panel last; the other submitted panels have no entry
C11_Witness ==
    /\ Succeeded
    /\ Len(response.panels) = 3
    /\ Len(opcut_params.panels) > 3
    /\ Len(result_json.used) = 2 /\ Len(result_json.unused) = 1
    /\ result_json.used[1].panel = response.panels[3].panel_id
    /\ result_json.used[2].panel = response.panels[2].panel_id
    /\ result_json.unused[1].panel = response.panels[1].panel_id
    /\ \E k \in 1..Len(tried.panels) :
          /\ IsUnitOf(response.panels[2].panel_id, tried.panels[k].name, 10)
          /\ IsUnitOf(response.panels[3].panel_id, tried.panels[k].name, 2)
    /\ response.panels[3].used_items[1].x = 11
    /\ response.panels[1].unused_areas[1].x = 31

(***************************************************************************)
(* C12 as claimed: in a success response every placed item that was        *)
(* submitted is compared with the grain of the panel of the entry it is    *)
(* placed on: where the item's grain equals that panel's grain the         *)
(* declared engraved line and borders are reported unchanged, whatever the *)
(* grain of the first panel spec; where it differs the line is flipped and *)
(* the borders are rotated clockwise.                                      *)
(***************************************************************************)
AssignedPanel(pn) == panel_mapping[response.panels[pn[1]].panel_id]

C12_GrainComparedWithAssignedPanel ==
    Succeeded =>
        \A pn \in PlacedAt : \A k \in SpecsOf(Placed(pn).item_id) :
            LET item == tried.items[k]
                shown == Placed(pn)
            IN  IF item.grain = AssignedPanel(pn).grain
                THEN /\ shown.engraved_line = item.engraved_line
                     /\ shown.borders = item.borders
                ELSE /\ item.engraved_line = "none" => shown.engraved_line = "none"
                     /\ item.engraved_line = "horizontal" =>
                            shown.engraved_line = "vertical"
                     /\ item.engraved_line = "vertical" =>
                            shown.engraved_line = "horizontal"
                     /\ shown.borders.top = item.borders.left
                     /\ shown.borders.right = item.borders.top
                     /\ shown.borders.bottom = item.borders.right
                     /\ shown.borders.left = item.borders.bottom

====
